---------------------------- MODULE Spec2Model ----------------------------
(***************************************************************************)
(* Model of the git-auto-sync engine (sync.py): the PID lock file, the     *)
(* quiet-hours gate, the batch loop of main() and the pull -> commit ->    *)
(* push pipeline of sync_repo().                                           *)
(*                                                                         *)
(* Specifications:                                                         *)
(*   SpecLock  several engine instances racing on the lock file, each      *)
(*             file-system call of acquire_lock/release_lock one step.     *)
(*   Spec      one engine run of main() in full (arguments, configuration, *)
(*             gate, batch loop, status record), beside another instance   *)
(*             that may hold the lock; sync_repo is one step whose git     *)
(*             stages answer success or failure.                           *)
(*   SpecRepo  sync_repo on one repository, every git command one step,    *)
(*             with the commits of the local, tracking and remote branch   *)
(*             and an external writer pushing to the remote.               *)
(*   SpecGate  should_skip_sync on every hour and schedule.                *)
(***************************************************************************)
EXTENDS Integers, Sequences, FiniteSets, TLC

(***************************************************************************)
(* Bounds of the model.                                                    *)
(***************************************************************************)
\* number of engine instances started on the host in SpecLock
NumProcs == 3
\* largest number of repositories in the configuration
MaxRepos == 2

(***************************************************************************)
(* Encodings of the lock file's content (LOCK_FILE, sync.py:21).  A live   *)
(* instance i writes its own pid, modelled as i.                           *)
(***************************************************************************)
\* the lock file does not exist
NoFile == -1
\* the lock file holds text that int() rejects (ValueError)
Corrupt == -2
\* the pid of a process that no longer exists (os.kill raises ProcessLookupError)
StalePid == 0
\* exitCode of a process whose exit status is not decided yet
Running == -1

Procs == 1 .. NumProcs

VARIABLES
    pc,         \* pc[i]: position of instance i in main()
    readPid,    \* readPid[i]: the local `pid` of acquire_lock (what was read)
    acquired,   \* acquired[i]: acquire_lock() returned True
    released,   \* released[i]: release_lock() was entered
    exitCode,   \* exitCode[i]: the status the process ends with, decided
                \* when the try body is left or an exception escapes main
    lock,       \* content of LOCK_FILE
    args,       \* command line of the engine: mode, dry, force, repo
    cfgRepos,   \* "repos" of config.json, in configuration order
    repos,      \* main's local `repos` (after loading and filtering)
    idx,        \* position of the for loop of main in `repos`
    successCount, \* main's local success_count
    status,     \* content of STATUS_FILE
    attempts,   \* history: the sync_repo calls that returned, in order
    summary,    \* the "N/M repos successful" line once logged
    gate,       \* the hour and schedule should_skip_sync read, once called
    exitPath,   \* history: the way the engine left the try body
    rpc,        \* position of sync_repo in its pipeline
    valid,      \* history: what the validation of sync_repo found
    remote,     \* commits of the branch on the remote
    track,      \* commits of the remote-tracking ref (as of the last fetch)
    local,      \* commits of the local branch (HEAD)
    work,       \* kinds of uncommitted change in the working copy
    staged,     \* the index holds staged changes
    merging,    \* a merge is in progress in the working copy
    calls,      \* history: the git commands sync_repo has run, in order
    stages,     \* history: the stages that returned, with their results
    result,     \* what sync_repo returned: "none" before it returns
    gateResult  \* what should_skip_sync returned: "none" before it returns

lockVars == <<pc, readPid, acquired, released, exitCode, lock>>
engVars == <<args, cfgRepos, repos, idx, successCount, status, attempts,
             summary, gate, exitPath>>
repoVars == <<rpc, valid, remote, track, local, work, staged, merging, calls,
              stages, result>>
vars == <<lockVars, engVars, repoVars, gateResult>>
\* what the lock protocol leaves alone
nonLockVars == <<engVars, repoVars, gateResult>>
\* what main leaves alone when sync_repo is taken as one step
nonEngVars == <<repoVars, gateResult>>

(***************************************************************************)
(* ProcessLock                                                             *)
(***************************************************************************)
\* os.kill(pid, 0) succeeds: the pid names a process that has not exited.
\* Every instance is a running process from the start of the model until
\* its pc is "exited".
Alive(p) == p \in Procs /\ pc[p] # "exited"

\* the process ends with the given status, from whatever place
Exit(i, code) ==
    /\ pc' = [pc EXCEPT ![i] = "exited"]
    /\ exitCode' = [exitCode EXCEPT ![i] = code]

\* an instance is inside the region the lock protects: acquire_lock()
\* returned True and release_lock() has not been entered
Holding(i) == acquired[i] /\ ~released[i]

\* acquire_lock, line 62: if LOCK_FILE.exists()
LockExists(i) ==
    /\ pc[i] = "acq_exists"
    /\ pc' = [pc EXCEPT ![i] = IF lock # NoFile THEN "acq_read" ELSE "acq_write"]
    /\ UNCHANGED <<readPid, acquired, released, exitCode, lock>>
    /\ UNCHANGED nonLockVars

\* acquire_lock, line 64: pid = int(LOCK_FILE.read_text().strip())
\*   file gone meanwhile: FileNotFoundError, caught by nobody, the process dies
\*   not a number: ValueError, handled as a stale lock (line 69)
ReadPid(i) ==
    /\ pc[i] = "acq_read"
    /\ IF lock = NoFile
         THEN Exit(i, 1) /\ UNCHANGED <<readPid>>
         ELSE /\ readPid' = [readPid EXCEPT ![i] = lock]
              /\ pc' = [pc EXCEPT ![i] = IF lock = Corrupt THEN "acq_unlink" ELSE "acq_probe"]
              /\ UNCHANGED exitCode
    /\ UNCHANGED <<acquired, released, lock>>
    /\ UNCHANGED nonLockVars

\* acquire_lock, lines 66-69: os.kill(pid, 0); alive: log, return False, and
\* main (327-328) exits 1; ProcessLookupError: go on to remove the stale lock
\* (mutant) the probe's answer is ignored: every lock is treated as stale
ProbeNextIgnoresLiveness(alive) == "acq_unlink"

ProbeNext(alive) == IF alive THEN "exited" ELSE "acq_unlink"

Probe(i) ==
    /\ pc[i] = "acq_probe"
    /\ LET nxt == ProbeNext(Alive(readPid[i])) IN
         /\ pc' = [pc EXCEPT ![i] = nxt]
         /\ exitCode' = [exitCode EXCEPT ![i] = IF nxt = "exited" THEN 1 ELSE @]
    /\ UNCHANGED <<readPid, acquired, released, lock>>
    /\ UNCHANGED nonLockVars

\* acquire_lock, line 71: LOCK_FILE.unlink() inside the except handler;
\* file gone meanwhile: FileNotFoundError leaves acquire_lock and main
StaleUnlink(i) ==
    /\ pc[i] = "acq_unlink"
    /\ IF lock = NoFile
         THEN Exit(i, 1) /\ UNCHANGED lock
         ELSE /\ lock' = NoFile
              /\ pc' = [pc EXCEPT ![i] = "acq_write"]
              /\ UNCHANGED exitCode
    /\ UNCHANGED <<readPid, acquired, released>>
    /\ UNCHANGED nonLockVars

\* acquire_lock, lines 73-74: LOCK_FILE.write_text(str(os.getpid())); return True
WriteLock(i) ==
    /\ pc[i] = "acq_write"
    /\ lock' = i
    /\ acquired' = [acquired EXCEPT ![i] = TRUE]
    /\ pc' = [pc EXCEPT ![i] = "try"]
    /\ UNCHANGED <<readPid, released, exitCode>>
    /\ UNCHANGED nonLockVars

\* main, lines 330/362-363: whatever ends the try body (its last statement,
\* sys.exit or an exception) passes control to the finally clause, which
\* calls release_lock(); the process then ends with the status given
\* (mutant) no try/finally: the process ends without release_lock()
LeaveTryNoFinally(i, code) ==
    /\ Exit(i, code)
    /\ UNCHANGED released

LeaveTry(i, code) ==
    /\ pc' = [pc EXCEPT ![i] = "rel_exists"]
    /\ exitCode' = [exitCode EXCEPT ![i] = code]
    /\ released' = [released EXCEPT ![i] = TRUE]

\* main, lines 330-361 seen from the lock: the try body ends by falling
\* through (status 0), by sys.exit(0), by sys.exit(1) or by an exception
\* (status 1); each way control passes to the finally clause
RunBody(i) ==
    /\ pc[i] = "try"
    /\ \E code \in {0, 1} : LeaveTry(i, code)
    /\ UNCHANGED <<readPid, acquired, lock>>
    /\ UNCHANGED nonLockVars

\* release_lock, line 78: if LOCK_FILE.exists(); absent: the process ends
\* with the status the try body left
ReleaseExists(i) ==
    /\ pc[i] = "rel_exists"
    /\ pc' = [pc EXCEPT ![i] = IF lock # NoFile THEN "rel_unlink" ELSE "exited"]
    /\ UNCHANGED <<readPid, acquired, released, exitCode, lock>>
    /\ UNCHANGED nonLockVars

\* release_lock, line 79: LOCK_FILE.unlink(); file gone meanwhile:
\* FileNotFoundError out of the finally clause, status 1
ReleaseUnlink(i) ==
    /\ pc[i] = "rel_unlink"
    /\ IF lock = NoFile
         THEN Exit(i, 1) /\ UNCHANGED lock
         ELSE /\ lock' = NoFile
              /\ pc' = [pc EXCEPT ![i] = "exited"]
              /\ UNCHANGED exitCode
    /\ UNCHANGED <<readPid, acquired, released>>
    /\ UNCHANGED nonLockVars

(***************************************************************************)
(* SpecLock: NumProcs instances started on one host.  The lock file may    *)
(* be absent, left behind by a killed instance, or hold unreadable text.   *)
(***************************************************************************)
\* the engine state before main has loaded anything
NoStatus == [repo |-> 0, status |-> "none", message |-> ""]
NoSummary == [n |-> -1, m |-> -1]
NoGate == [hour |-> -1, start |-> -1, end |-> -1, skip |-> {}]
NoArgs == [mode |-> "headless", dry |-> FALSE, force |-> FALSE, repo |-> 0]

\* no repository is being synced step by step
RepoIdle ==
    /\ gateResult = "none"
    /\ rpc = "idle" /\ valid = "none"
    /\ remote = {} /\ track = {} /\ local = {}
    /\ work = {} /\ staged = FALSE /\ merging = FALSE
    /\ calls = <<>> /\ stages = <<>> /\ result = "none"

EngineFresh ==
    /\ repos = <<>>
    /\ idx = 0
    /\ successCount = 0
    /\ status = NoStatus
    /\ attempts = <<>>
    /\ summary = NoSummary
    /\ gate = NoGate
    /\ exitPath = "none"

InitLock ==
    /\ RepoIdle
    /\ args = NoArgs
    /\ cfgRepos = <<>>
    /\ EngineFresh
    /\ pc = [i \in Procs |-> "acq_exists"]
    /\ readPid = [i \in Procs |-> NoFile]
    /\ acquired = [i \in Procs |-> FALSE]
    /\ released = [i \in Procs |-> FALSE]
    /\ exitCode = [i \in Procs |-> Running]
    /\ lock \in {NoFile, StalePid, Corrupt}

NextLock ==
    \E i \in Procs :
        \/ LockExists(i)
        \/ ReadPid(i)
        \/ Probe(i)
        \/ StaleUnlink(i)
        \/ WriteLock(i)
        \/ RunBody(i)
        \/ ReleaseExists(i)
        \/ ReleaseUnlink(i)

SpecLock == InitLock /\ [][NextLock]_vars

(***************************************************************************)
(* ScheduleGate                                                            *)
(***************************************************************************)
Hours == 0 .. 23

\* (mutant) the two quiet-hours comparisons joined by "and"
should_skip_sync_and(hour, start, end, skip_hours) ==
    (hour >= start /\ hour < end) \/ hour \in skip_hours

\* (mutant) quiet hours with start <= end read as the hours of one day from
\* start up to end
should_skip_sync_range(hour, start, end, skip_hours) ==
    IF start <= end
      THEN (hour >= start /\ hour < end) \/ hour \in skip_hours
      ELSE (hour >= start \/ hour < end) \/ hour \in skip_hours

\* should_skip_sync, lines 88-103, on the hour and the schedule it read
should_skip_sync(hour, start, end, skip_hours) ==
    IF hour >= start \/ hour < end
      THEN TRUE
      ELSE IF hour \in skip_hours THEN TRUE ELSE FALSE

\* quiet_hours.get("start", 22) and .get("end", 9), lines 91-92
DefaultStart == 22
DefaultEnd == 9
\* a key that the configuration does not hold
Absent == -1
ConfigGet(value, default) == IF value = Absent THEN default ELSE value

\* most hours in skipHours in SpecGate
MaxSkip == 1
RECURSIVE HourSets(_)
HourSets(n) ==
    IF n = 0 THEN {{}}
    ELSE LET smaller == HourSets(n - 1)
         IN smaller \cup {s \cup {h} : s \in smaller, h \in Hours}

\* should_skip_sync, lines 83-103, called at some hour of the day on a
\* configuration in which quietHours.start and .end may be missing
GateDecide ==
    /\ gateResult = "none"
    /\ \E h \in Hours :
         /\ gate' = [gate EXCEPT !.hour = h]
         /\ gateResult' =
              IF should_skip_sync(h, ConfigGet(gate.start, DefaultStart),
                                  ConfigGet(gate.end, DefaultEnd), gate.skip)
                THEN "skip" ELSE "run"
    /\ UNCHANGED <<lockVars, repoVars>>
    /\ UNCHANGED <<args, cfgRepos, repos, idx, successCount, status, attempts,
                   summary, exitPath>>

(***************************************************************************)
(* StatusRecorder and RepositorySyncer, with the VCS calls' results as     *)
(* inputs                                                                  *)
(***************************************************************************)
\* save_status, lines 46-58: the record that replaces STATUS_FILE
\* (branch, remote and timestamp are carried along by the code unchanged)
save_status(repo_path, st, message) ==
    [repo |-> repo_path, status |-> st, message |-> message]

\* sync_repo, lines 277-313, given what the file system and the three
\* stages answer: the value returned and the message handed to save_status
\* ("" when save_status is not called)
sync_repo(dry_run, pathExists, isGit, pullOk, commitOk, pushOk) ==
    IF ~pathExists THEN [ok |-> FALSE, status |-> "", message |-> ""]
    ELSE IF ~isGit THEN [ok |-> FALSE, status |-> "", message |-> ""]
    ELSE IF dry_run THEN [ok |-> TRUE, status |-> "", message |-> ""]
    ELSE IF ~pullOk THEN [ok |-> FALSE, status |-> "failed", message |-> "Pull failed"]
    ELSE IF ~commitOk THEN [ok |-> FALSE, status |-> "failed", message |-> "Commit failed"]
    ELSE IF ~pushOk THEN [ok |-> FALSE, status |-> "failed", message |-> "Push failed"]
    ELSE [ok |-> TRUE, status |-> "success", message |-> "Sync completed"]

(***************************************************************************)
(* Engine: main() of the instance under observation                        *)
(***************************************************************************)
\* the instance whose run is modelled in full, and the other instance
Engine == 1
Other == 2

\* the path named by --repo: 0 when the option is absent, MaxRepos + 1 a
\* path the configuration does not hold
RepoArgs == 0 .. MaxRepos + 1
ArgSets == [mode : {"head", "headless"}, dry : BOOLEAN, force : BOOLEAN,
            repo : RepoArgs]

\* the repository lists of config.json: n descriptors, the k-th with path k
ConfigLists ==
    UNION { { [k \in 1 .. n |-> [path |-> k, enabled |-> en[k]]] :
                en \in [1 .. n -> BOOLEAN] } : n \in 0 .. MaxRepos }

\* hours and schedules the gate is run on in Spec (SpecGate covers them all)
GateHours == {0, 8, 9, 12, 21, 22, 23}
GateSchedules ==
    { [start |-> 22, end |-> 9, skip |-> {}],
      [start |-> 22, end |-> 9, skip |-> {12}],
      [start |-> 9, end |-> 17, skip |-> {}] }

engineLock == <<readPid, acquired, lock>>

\* main, lines 331-336: get_config() (json.load may raise), the repository
\* list, and sys.exit(0) when it is empty
LoadConfig ==
    /\ pc[Engine] = "try"
    /\ \/ /\ LeaveTry(Engine, 1)
          /\ exitPath' = "config_error"
          /\ UNCHANGED repos
       \/ /\ repos' = cfgRepos
          /\ IF cfgRepos = <<>>
               THEN LeaveTry(Engine, 0) /\ exitPath' = "no_repos"
               ELSE /\ pc' = [pc EXCEPT ![Engine] = "filter"]
                    /\ UNCHANGED <<exitCode, released, exitPath>>
    /\ UNCHANGED engineLock
    /\ UNCHANGED <<args, cfgRepos, idx, successCount, status, attempts, summary, gate>>
    /\ UNCHANGED nonEngVars

\* main, lines 338-343: keep the repositories whose path is --repo;
\* sys.exit(1) when none is left
FilterRepo ==
    /\ pc[Engine] = "filter"
    /\ LET kept == IF args.repo # 0
                     THEN SelectSeq(repos, LAMBDA r : r.path = args.repo)
                     ELSE repos
       IN /\ repos' = kept
          /\ IF kept = <<>>
               THEN LeaveTry(Engine, 1) /\ exitPath' = "repo_not_found"
               ELSE /\ pc' = [pc EXCEPT ![Engine] = "gate"]
                    /\ UNCHANGED <<exitCode, released, exitPath>>
    /\ UNCHANGED engineLock
    /\ UNCHANGED <<args, cfgRepos, idx, successCount, status, attempts, summary, gate>>
    /\ UNCHANGED nonEngVars

\* main, line 346: the gate is asked only for a headless run without --force
\* (mutant) the gate is asked on every run
GateConsultedAlways(a) == TRUE

GateConsulted(a) == ~a.force /\ a.mode = "headless"

\* main, lines 345-351: should_skip_sync() reads the schedule and the clock;
\* sys.exit(0) when it says skip; otherwise success_count = 0 and the loop
ScheduleGate ==
    /\ pc[Engine] = "gate"
    /\ IF GateConsulted(args)
         THEN \E h \in GateHours, g \in GateSchedules :
                /\ gate' = [hour |-> h, start |-> g.start, end |-> g.end,
                            skip |-> g.skip]
                /\ IF should_skip_sync(h, g.start, g.end, g.skip)
                     THEN LeaveTry(Engine, 0) /\ exitPath' = "skipped"
                                              /\ UNCHANGED <<idx, successCount>>
                     ELSE /\ pc' = [pc EXCEPT ![Engine] = "loop"]
                          /\ idx' = 1
                          /\ successCount' = 0
                          /\ UNCHANGED <<exitCode, released, exitPath>>
         ELSE /\ pc' = [pc EXCEPT ![Engine] = "loop"]
              /\ idx' = 1
              /\ successCount' = 0
              /\ UNCHANGED <<exitCode, released, exitPath, gate>>
    /\ UNCHANGED engineLock
    /\ UNCHANGED <<args, cfgRepos, repos, status, attempts, summary>>
    /\ UNCHANGED nonEngVars

\* main, lines 352-355: a repository with enabled false is passed over
SkipDisabled ==
    /\ pc[Engine] = "loop"
    /\ idx <= Len(repos)
    /\ ~repos[idx].enabled
    /\ idx' = idx + 1
    /\ UNCHANGED lockVars
    /\ UNCHANGED <<args, cfgRepos, repos, successCount, status, attempts,
                   summary, gate, exitPath>>
    /\ UNCHANGED nonEngVars

\* main, lines 357-358: the counter after a sync_repo call returned ok
\* (mutant) the counter is raised for every repository synced
CountSuccessAlways(count, ok) == count + 1

CountSuccess(count, ok) == IF ok THEN count + 1 ELSE count

\* main, lines 352-358 with sync_repo, lines 270-313: one enabled repository
\* is synced; the status file is rewritten when sync_repo calls save_status;
\* the loop goes on to the next repository whatever was returned
\* (mutant) the "enabled" test of line 353 is missing
SyncRepoCallAnyRepo ==
    /\ pc[Engine] = "loop"
    /\ idx <= Len(repos)
    /\ \E pathExists, isGit, pullOk, commitOk, pushOk \in BOOLEAN :
         LET r == sync_repo(args.dry, pathExists, isGit, pullOk, commitOk, pushOk)
         IN /\ status' = IF r.message # ""
                           THEN save_status(repos[idx].path, r.status, r.message)
                           ELSE status
            /\ attempts' = Append(attempts,
                             [path |-> repos[idx].path, ok |-> r.ok,
                              message |-> r.message])
            /\ successCount' = CountSuccess(successCount, r.ok)
    /\ idx' = idx + 1
    /\ UNCHANGED lockVars
    /\ UNCHANGED <<args, cfgRepos, repos, summary, gate, exitPath>>
    /\ UNCHANGED nonEngVars

SyncRepoCall ==
    /\ pc[Engine] = "loop"
    /\ idx <= Len(repos)
    /\ repos[idx].enabled
    /\ \E pathExists, isGit, pullOk, commitOk, pushOk \in BOOLEAN :
         LET r == sync_repo(args.dry, pathExists, isGit, pullOk, commitOk, pushOk)
         IN /\ status' = IF r.message # ""
                           THEN save_status(repos[idx].path, r.status, r.message)
                           ELSE status
            /\ attempts' = Append(attempts,
                             [path |-> repos[idx].path, ok |-> r.ok,
                              message |-> r.message])
            /\ successCount' = CountSuccess(successCount, r.ok)
    /\ idx' = idx + 1
    /\ UNCHANGED lockVars
    /\ UNCHANGED <<args, cfgRepos, repos, summary, gate, exitPath>>
    /\ UNCHANGED nonEngVars

\* an exception leaves sync_repo (log or save_status cannot write its file,
\* KeyboardInterrupt in time.sleep): the loop is left for the finally clause
SyncRaises ==
    /\ pc[Engine] = "loop"
    /\ idx <= Len(repos)
    /\ repos[idx].enabled
    /\ LeaveTry(Engine, 1)
    /\ exitPath' = "sync_error"
    /\ UNCHANGED engineLock
    /\ UNCHANGED <<args, cfgRepos, repos, idx, successCount, status, attempts,
                   summary, gate>>
    /\ UNCHANGED nonEngVars

\* main, line 360: the summary line, then the end of the try body
Summary ==
    /\ pc[Engine] = "loop"
    /\ idx > Len(repos)
    /\ summary' = [n |-> successCount, m |-> Len(repos)]
    /\ LeaveTry(Engine, 0)
    /\ exitPath' = "completed"
    /\ UNCHANGED engineLock
    /\ UNCHANGED <<args, cfgRepos, repos, idx, successCount, status, attempts, gate>>
    /\ UNCHANGED nonEngVars

(***************************************************************************)
(* Spec: one engine run.  The other instance either is not running (the    *)
(* lock file absent, stale or unreadable) or holds the lock and may finish *)
(* at any moment; further instances never start.                           *)
(***************************************************************************)
Init ==
    /\ RepoIdle
    /\ args \in ArgSets
    /\ cfgRepos \in ConfigLists
    /\ EngineFresh
    /\ \E o \in {"exited", "try"} :
         /\ pc = [i \in Procs |-> IF i = Engine THEN "acq_exists"
                                  ELSE IF i = Other THEN o ELSE "exited"]
         /\ acquired = [i \in Procs |-> i = Other /\ o = "try"]
         /\ lock \in IF o = "try" THEN {Other} ELSE {NoFile, StalePid, Corrupt}
    /\ readPid = [i \in Procs |-> NoFile]
    /\ released = [i \in Procs |-> FALSE]
    /\ exitCode = [i \in Procs |-> Running]

Next ==
    \/ LockExists(Engine)
    \/ ReadPid(Engine)
    \/ Probe(Engine)
    \/ StaleUnlink(Engine)
    \/ WriteLock(Engine)
    \/ LoadConfig
    \/ FilterRepo
    \/ ScheduleGate
    \/ SkipDisabled
    \/ SyncRepoCall
    \/ SyncRaises
    \/ Summary
    \/ RunBody(Other)
    \/ \E i \in {Engine, Other} : ReleaseExists(i) \/ ReleaseUnlink(i)

Spec == Init /\ [][Next]_vars

(***************************************************************************)
(* VersionControlClient and RepositorySyncer step by step (SpecRepo):      *)
(* sync_repo on one repository, every git command one step, beside an      *)
(* external writer that pushes commits to the remote.                      *)
(*                                                                         *)
(* A branch is the set of commits reachable from its tip.  The external    *)
(* writer's commits are 1 .. MaxExternal; the commits made locally are     *)
(* named below.                                                            *)
(***************************************************************************)
\* most commits the external writer pushes in all
MaxExternal == 2
\* a local commit made before this run and not pushed yet
EarlierCommit == 11
\* the commit made by git_commit (line 209)
AutoCommit == 12
\* the merge commit made by git pull (line 154) when the histories diverged
MergeCommit == 13

External == 1 .. MaxExternal

\* git rev-list --count A..B: commits of B that A lacks
RevListCount(a, b) == Cardinality(b \ a)

\* one more git command has been run
Called(cmd) == calls' = Append(calls, cmd)

\* (mutant) the failure is recorded but the "return False" is missing:
\* sync_repo goes on with the next stage
StageFailsGoesOn(name, message) ==
    /\ stages' = Append(stages, [name |-> name, ok |-> FALSE])
    /\ status' = save_status(1, "failed", message)
    /\ result' = IF name = "push" THEN "failed" ELSE result
    /\ rpc' = IF name = "pull" THEN "sleep1"
              ELSE IF name = "commit" THEN "sleep2" ELSE "done"

\* sync_repo returns False after a stage failed: lines 293-295, 300-302,
\* 307-309
StageFails(name, message) ==
    /\ stages' = Append(stages, [name |-> name, ok |-> FALSE])
    /\ status' = save_status(1, "failed", message)
    /\ result' = "failed"
    /\ rpc' = "done"

\* a stage returned True and sync_repo goes on
StageOk(name, next) ==
    /\ stages' = Append(stages, [name |-> name, ok |-> TRUE])
    /\ rpc' = next
    /\ UNCHANGED <<status, result>>

gitState == <<remote, track, local, work, staged, merging>>
repoFrame == <<lockVars, args, cfgRepos, repos, idx, successCount, attempts,
               summary, gate, exitPath, gateResult>>
\* what the steps after the validation leave alone
stepFrame == <<repoFrame, valid>>

\* sync_repo, lines 277-290: the path must exist and hold .git; a dry run
\* returns True here
\* (mutant) the dry-run test of line 288 is missing
ValidateIgnoresDryRun ==
    /\ rpc = "validate"
    /\ \E pathExists, isGit \in BOOLEAN :
         /\ valid' = IF pathExists /\ isGit THEN "yes" ELSE "no"
         /\ IF ~pathExists \/ ~isGit
              THEN result' = "failed" /\ rpc' = "done"
              ELSE result' = result /\ rpc' = "fetch"
    /\ UNCHANGED <<gitState, calls, stages, status>>
    /\ UNCHANGED repoFrame

Validate ==
    /\ rpc = "validate"
    /\ \E pathExists, isGit \in BOOLEAN :
         /\ valid' = IF pathExists /\ isGit THEN "yes" ELSE "no"
         /\ IF ~pathExists \/ ~isGit
              THEN result' = "failed" /\ rpc' = "done"
              ELSE IF args.dry
                     THEN result' = "ok" /\ rpc' = "done"
                     ELSE result' = result /\ rpc' = "fetch"
    /\ UNCHANGED <<gitState, calls, stages, status>>
    /\ UNCHANGED repoFrame

\* git_pull, lines 125-135 and 170-175: git fetch, timeout 30; a non-zero
\* result, the timeout or any other exception makes git_pull return False
Fetch ==
    /\ rpc = "fetch"
    /\ Called("fetch")
    /\ \E out \in {"ok", "fail", "timeout"} :
         IF out = "ok"
           THEN /\ track' = remote
                /\ rpc' = "behind"
                /\ UNCHANGED <<stages, status, result>>
           ELSE /\ StageFails("pull", "Pull failed")
                /\ UNCHANGED track
    /\ UNCHANGED <<remote, local, work, staged, merging>>
    /\ UNCHANGED stepFrame

\* git_pull, lines 138-148: git rev-list --count HEAD..remote/branch; empty
\* output (the command failed) counts as 0; 0 returns True
\* (mutant) the test of line 146 is missing: git pull is run whatever the
\* count
CountBehindAlwaysPulls ==
    /\ rpc = "behind"
    /\ Called("behind")
    /\ rpc' = "pull"
    /\ UNCHANGED <<stages, status, result>>
    /\ UNCHANGED gitState
    /\ UNCHANGED stepFrame

CountBehind ==
    /\ rpc = "behind"
    /\ Called("behind")
    /\ \E out \in {"ok", "fail"} :
         LET behind == IF out = "ok" THEN RevListCount(local, track) ELSE 0
         IN IF behind = 0
              THEN StageOk("pull", "sleep1")
              ELSE rpc' = "pull" /\ UNCHANGED <<stages, status, result>>
    /\ UNCHANGED gitState
    /\ UNCHANGED stepFrame

\* git_pull's handling of a pull that did not succeed: a non-zero result
\* runs git merge --abort (line 167) before returning False; the timeout is
\* caught at line 170 and returns False at once
AfterPullFailure(out) == IF out = "fail" THEN "abort" ELSE "done"

\* git_pull, lines 153-172: git pull -X strategy, timeout 60.  A pull that
\* succeeds fetches the remote and merges it; one that fails or is killed
\* by the timeout may leave a merge in progress
Pull ==
    /\ rpc = "pull"
    /\ Called("pull")
    /\ \E out \in {"ok", "fail", "timeout"} :
         IF out = "ok"
           THEN /\ track' = remote
                /\ local' = local \cup remote \cup
                              (IF local \subseteq remote THEN {} ELSE {MergeCommit})
                /\ StageOk("pull", "sleep1")
                /\ UNCHANGED merging
           ELSE /\ merging' \in BOOLEAN
                /\ UNCHANGED <<track, local>>
                /\ IF AfterPullFailure(out) = "abort"
                     THEN rpc' = "abort" /\ UNCHANGED <<stages, status, result>>
                     ELSE StageFails("pull", "Pull failed")
    /\ UNCHANGED <<remote, work, staged>>
    /\ UNCHANGED stepFrame

\* git_pull, lines 167-168: git merge --abort, then return False
MergeAbort ==
    /\ rpc = "abort"
    /\ Called("abort")
    /\ merging' = FALSE
    /\ StageFails("pull", "Pull failed")
    /\ UNCHANGED <<remote, track, local, work, staged>>
    /\ UNCHANGED stepFrame

\* sync_repo, line 297: time.sleep(2)
Sleep1 ==
    /\ rpc = "sleep1"
    /\ rpc' = "status"
    /\ UNCHANGED <<gitState, calls, stages, status, result>>
    /\ UNCHANGED stepFrame

\* git_commit, lines 179-181, and has_changes, lines 105-117: git status
\* --porcelain; no output (nothing changed, or the command failed) returns
\* True without committing
HasChanges ==
    /\ rpc = "status"
    /\ Called("status")
    /\ \E out \in {"ok", "fail"} :
         LET changes == out = "ok" /\ (work # {} \/ staged)
         IN IF changes
              THEN rpc' = "add" /\ UNCHANGED <<stages, status, result>>
              ELSE StageOk("commit", "sleep2")
    /\ UNCHANGED gitState
    /\ UNCHANGED stepFrame

\* git_commit, lines 185-191 and 223-225: git add -A without logs/, timeout
\* 30; its result is not looked at; the timeout is an exception and
\* git_commit returns False
StageAll ==
    /\ rpc = "add"
    /\ Called("add")
    /\ \E out \in {"ok", "fail", "timeout"} :
         /\ staged' = (staged \/ (out = "ok" /\ "file" \in work))
         /\ IF out = "timeout"
              THEN StageFails("commit", "Commit failed")
              ELSE rpc' = "diff" /\ UNCHANGED <<stages, status, result>>
    /\ UNCHANGED <<remote, track, local, work, merging>>
    /\ UNCHANGED stepFrame

\* git_commit, lines 194-204: git diff --cached --name-only; no line of
\* output (nothing staged, or the command failed) returns True
CountStaged ==
    /\ rpc = "diff"
    /\ Called("diff")
    /\ \E out \in {"ok", "fail"} :
         LET changed == IF out = "ok" /\ staged THEN 1 ELSE 0
         IN IF changed = 0
              THEN StageOk("commit", "sleep2")
              ELSE rpc' = "commit" /\ UNCHANGED <<stages, status, result>>
    /\ UNCHANGED gitState
    /\ UNCHANGED stepFrame

\* git_commit, lines 207-225: git commit, timeout 30
Commit ==
    /\ rpc = "commit"
    /\ Called("commit")
    /\ \E out \in {"ok", "fail", "timeout"} :
         IF out = "ok"
           THEN /\ local' = local \cup {AutoCommit}
                /\ staged' = FALSE
                /\ work' = work \ {"file"}
                /\ StageOk("commit", "sleep2")
           ELSE /\ StageFails("commit", "Commit failed")
                /\ UNCHANGED <<local, staged, work>>
    /\ UNCHANGED <<remote, track, merging>>
    /\ UNCHANGED stepFrame

\* sync_repo, line 304: time.sleep(2)
Sleep2 ==
    /\ rpc = "sleep2"
    /\ rpc' = "ahead"
    /\ UNCHANGED <<gitState, calls, stages, status, result>>
    /\ UNCHANGED stepFrame

\* sync_repo, lines 311-313: the last stage returned True
Succeed ==
    /\ stages' = Append(stages, [name |-> "push", ok |-> TRUE])
    /\ status' = save_status(1, "success", "Sync completed")
    /\ result' = "ok"
    /\ rpc' = "done"

\* git_push, lines 233-243: git rev-list --count remote/branch..HEAD; empty
\* output counts as 0; 0 returns True
\* (mutant) the test of line 241 is missing: git push is run whatever the
\* count
CountAheadAlwaysPushes ==
    /\ rpc = "ahead"
    /\ Called("ahead")
    /\ rpc' = "push"
    /\ UNCHANGED <<stages, status, result>>
    /\ UNCHANGED gitState
    /\ UNCHANGED stepFrame

CountAhead ==
    /\ rpc = "ahead"
    /\ Called("ahead")
    /\ \E out \in {"ok", "fail"} :
         LET ahead == IF out = "ok" THEN RevListCount(track, local) ELSE 0
         IN IF ahead = 0
              THEN Succeed
              ELSE rpc' = "push" /\ UNCHANGED <<stages, status, result>>
    /\ UNCHANGED gitState
    /\ UNCHANGED stepFrame

\* (mutant) git push --force: the remote branch is set to the local one
\* whatever it holds
PushForced(mine, theirs) == TRUE

\* git push --force-if-includes remote branch (line 249): without
\* --force-with-lease the option does nothing, so this is a plain push,
\* which the remote accepts only as a fast-forward: every commit of the
\* remote branch is already in the local history
PushAccepted(mine, theirs) == theirs \subseteq mine

\* git_push, lines 248-268: git push, timeout 60.  The remote takes the
\* local branch when it accepts the push; the push can also fail for other
\* reasons, and the timeout can strike before or after the remote took it
Push ==
    /\ rpc = "push"
    /\ Called("push")
    /\ \E out \in {"ok", "fail", "timeout"}, taken \in BOOLEAN :
         /\ out = "ok" => taken
         /\ out = "fail" => ~taken
         /\ taken => PushAccepted(local, remote)
         /\ IF taken
              THEN remote' = local /\ track' = local
              ELSE UNCHANGED <<remote, track>>
         /\ IF out = "ok" THEN Succeed ELSE StageFails("push", "Push failed")
    /\ UNCHANGED <<local, work, staged, merging>>
    /\ UNCHANGED stepFrame

\* the subprocess.run call of a command is given no timeout argument
NoTimeout == 0

\* the timeout argument of the subprocess.run call of each git command:
\* fetch line 130, pull 158, add 190, commit 213, push 253; the calls at
\* lines 108, 138, 167, 194 and 233 have none
CallTimeout(cmd) ==
    IF cmd \in {"fetch", "add", "commit"} THEN 30
    ELSE IF cmd \in {"pull", "push"} THEN 60
    ELSE NoTimeout

\* the git subprocess of the command sync_repo is about to run never
\* returns.  With a timeout argument subprocess.run kills it and raises
\* TimeoutExpired, the "timeout" answer of the steps above; without one
\* subprocess.run waits for ever and sync_repo goes no further
Hang ==
    /\ rpc \in {"fetch", "behind", "pull", "abort", "status", "add", "diff",
                "commit", "ahead", "push"}
    /\ CallTimeout(rpc) = NoTimeout
    /\ Called(rpc)
    /\ rpc' = "hung"
    /\ UNCHANGED <<gitState, stages, status, result>>
    /\ UNCHANGED stepFrame

\* somebody else pushes a commit onto the remote branch
ExternalPush ==
    /\ rpc \notin {"idle", "done"}
    /\ \E c \in External :
         /\ c \notin remote
         /\ \A d \in External : d < c => d \in remote
         /\ remote' = remote \cup {c}
    /\ UNCHANGED <<rpc, track, local, work, staged, merging, calls, stages,
                   result, status>>
    /\ UNCHANGED stepFrame

\* the repository before the run: the remote holds some external commits,
\* the last fetch saw some of them, the local branch has merged some of
\* those and may hold a commit of its own; the working copy may have
\* changes, in logs/ or elsewhere
InitRepo ==
    /\ gateResult = "none"
    /\ rpc = "validate" /\ valid = "none"
    /\ \E r \in 0 .. MaxExternal, t \in 0 .. MaxExternal, l \in 0 .. MaxExternal :
         /\ l <= t /\ t <= r
         /\ remote = 1 .. r
         /\ track = 1 .. t
         /\ \E own \in SUBSET {EarlierCommit} : local = (1 .. l) \cup own
    /\ work \in SUBSET {"file", "logs"}
    /\ staged = FALSE
    /\ merging = FALSE
    /\ calls = <<>> /\ stages = <<>> /\ result = "none"
    /\ args \in {a \in ArgSets : a.mode = "headless" /\ ~a.force /\ a.repo = 0}
    /\ cfgRepos = <<>>
    /\ EngineFresh
    /\ pc = [i \in Procs |-> "exited"]
    /\ readPid = [i \in Procs |-> NoFile]
    /\ acquired = [i \in Procs |-> FALSE]
    /\ released = [i \in Procs |-> FALSE]
    /\ exitCode = [i \in Procs |-> Running]
    /\ lock = NoFile

NextRepo ==
    \/ Validate
    \/ Fetch
    \/ CountBehind
    \/ Pull
    \/ MergeAbort
    \/ Sleep1
    \/ HasChanges
    \/ StageAll
    \/ CountStaged
    \/ Commit
    \/ Sleep2
    \/ CountAhead
    \/ Push
    \/ Hang
    \/ ExternalPush

SpecRepo == InitRepo /\ [][NextRepo]_vars

(***************************************************************************)
(* SpecGate: should_skip_sync on every hour, every quiet-hours pair        *)
(* (present or missing) and the sets of at most MaxSkip skip hours.        *)
(***************************************************************************)
InitGate ==
    /\ gate \in [hour : {Absent}, start : Hours \cup {Absent},
                 end : Hours \cup {Absent}, skip : HourSets(MaxSkip)]
    /\ gateResult = "none"
    /\ rpc = "idle" /\ valid = "none"
    /\ remote = {} /\ track = {} /\ local = {}
    /\ work = {} /\ staged = FALSE /\ merging = FALSE
    /\ calls = <<>> /\ stages = <<>> /\ result = "none"
    /\ args = NoArgs
    /\ cfgRepos = <<>>
    /\ repos = <<>> /\ idx = 0 /\ successCount = 0 /\ status = NoStatus
    /\ attempts = <<>> /\ summary = NoSummary /\ exitPath = "none"
    /\ pc = [i \in Procs |-> "exited"]
    /\ readPid = [i \in Procs |-> NoFile]
    /\ acquired = [i \in Procs |-> FALSE]
    /\ released = [i \in Procs |-> FALSE]
    /\ exitCode = [i \in Procs |-> Running]
    /\ lock = NoFile

NextGate == GateDecide

SpecGate == InitGate /\ [][NextGate]_vars

(***************************************************************************)
(* Properties of the lock (SpecLock, Spec)                                 *)
(***************************************************************************)
\* C1: at most one instance at a time is between a successful
\* acquire_lock() and its own release_lock().
C1_MutualExclusion == Cardinality({i \in Procs : Holding(i)}) <= 1

\* C2: when the liveness probe of the engine finds the pid it read alive,
\* the engine's next step ends the process with status 1, and that step
\* changes neither the lock file nor the status file; an engine that ended
\* without acquiring the lock exited non-zero, never entered release_lock,
\* loaded no repository list, synced nothing and wrote no status.
C2_LockContention ==
    /\ [](pc[Engine] = "exited" /\ ~acquired[Engine] =>
            /\ exitCode[Engine] = 1
            /\ ~released[Engine]
            /\ repos = <<>> /\ attempts = <<>> /\ status = NoStatus)
    /\ [][(pc[Engine] = "acq_probe" /\ Alive(readPid[Engine])
              /\ pc'[Engine] # "acq_probe") =>
            /\ pc'[Engine] = "exited"
            /\ exitCode'[Engine] = 1
            /\ ~acquired'[Engine]
            /\ lock' = lock
            /\ status' = status
            /\ attempts' = attempts]_vars

\* the engine lost to a live holder, whose lock record is still in place
C2_Witness ==
    /\ pc[Engine] = "exited" /\ ~acquired[Engine]
    /\ readPid[Engine] = Other /\ Alive(Other) /\ lock = Other

\* C3: an instance that found the lock record naming a dead pid deletes the
\* record, then writes its own pid and holds the lock, the record holding
\* exactly its pid.
C3_StaleLockRecovery ==
    [][\A i \in Procs :
          /\ (pc[i] = "acq_unlink" /\ readPid[i] \notin {NoFile, Corrupt}
                /\ pc'[i] # pc[i]) =>
                (pc'[i] = "acq_write" /\ lock' = NoFile)
          /\ (pc[i] = "acq_write" /\ pc'[i] # pc[i]) =>
                (acquired'[i] /\ lock' = i)]_vars

\* C4: an engine that acquired the lock has entered release_lock() by the
\* time it has exited, whichever way the try body ended, and the lock file
\* is absent in the state in which it exits.
C4_LockReleased ==
    /\ [](pc[Engine] = "exited" /\ acquired[Engine] => released[Engine])
    /\ [][(acquired[Engine] /\ pc[Engine] # "exited" /\ pc'[Engine] = "exited")
            => (released'[Engine] /\ lock' = NoFile)]_vars

\* the engine acquired the lock, an exception ended a sync, and it has exited
C4_Witness ==
    /\ pc[Engine] = "exited" /\ acquired[Engine]
    /\ exitPath = "sync_error" /\ attempts # <<>>
    /\ released[Engine] /\ lock = NoFile

(***************************************************************************)
(* Properties of the batch (Spec)                                          *)
(***************************************************************************)
SuccessfulAttempts == {k \in 1 .. Len(attempts) : attempts[k].ok}
EnabledRepos == SelectSeq(repos, LAMBDA r : r.enabled)

\* C6: a sync_repo call that returned, whatever it returned, is followed by
\* the next repository of the loop; when the summary is logged, the enabled
\* repositories have been attempted in configuration order, N is the number
\* of calls that returned success and M the length of the list.
C6_FailureIsolation ==
    /\ [](summary # NoSummary =>
            /\ Len(attempts) = Len(EnabledRepos)
            /\ \A k \in 1 .. Len(attempts) : attempts[k].path = EnabledRepos[k].path
            /\ summary.n = Cardinality(SuccessfulAttempts)
            /\ summary.m = Len(repos))
    /\ [][attempts' # attempts =>
            (pc'[Engine] = "loop" /\ idx' = idx + 1)]_vars

\* two repositories, the first failed at pull, the second succeeded: 1 of 2
C6_Witness ==
    /\ summary = [n |-> 1, m |-> 2]
    /\ attempts = << [path |-> 1, ok |-> FALSE, message |-> "Pull failed"],
                     [path |-> 2, ok |-> TRUE, message |-> "Sync completed"] >>

\* C7: every sync attempt that reached Succeeded or Failed has written its
\* outcome to the status record before the next repository is started.
C7_OutcomeRecorded ==
    attempts # <<>> =>
        LET last == attempts[Len(attempts)] IN
            /\ last.message # ""
            /\ status.repo = last.path
            /\ status.status = (IF last.ok THEN "success" ELSE "failed")

(***************************************************************************)
(* Properties of the pipeline (SpecRepo)                                   *)
(***************************************************************************)
StageOrder == <<"pull", "commit", "push">>
StageMessage == <<"Pull failed", "Commit failed", "Push failed">>
\* the stage a git command belongs to
StageOf(cmd) ==
    IF cmd \in {"fetch", "behind", "pull", "abort"} THEN 1
    ELSE IF cmd \in {"status", "add", "diff", "commit"} THEN 2 ELSE 3
HasCalled(cmd) == \E k \in 1 .. Len(calls) : calls[k] = cmd

\* C5: the stages return in the order pull, commit, push, and so do their
\* git commands; a command of the commit stage runs only after pull
\* returned success and one of the push stage only after commit returned
\* success; only the last stage that ran can have failed, and then sync_repo
\* has returned False with that stage's message saved; a non-dry run that
\* returned True ran all three stages.
C5_PipelineOrder ==
    /\ Len(stages) <= 3
    /\ \A k \in 1 .. Len(stages) :
         /\ stages[k].name = StageOrder[k]
         /\ k < Len(stages) => stages[k].ok
    /\ \A j, k \in 1 .. Len(calls) : j < k => StageOf(calls[j]) <= StageOf(calls[k])
    /\ \A k \in 1 .. Len(calls) :
         \A n \in 1 .. 2 :
            StageOf(calls[k]) > n => (Len(stages) >= n /\ stages[n].ok)
    /\ (stages # <<>> /\ ~stages[Len(stages)].ok) =>
         /\ rpc = "done" /\ result = "failed"
         /\ status = save_status(1, "failed", StageMessage[Len(stages)])
    /\ (result = "ok" /\ ~args.dry) =>
         (Len(stages) = 3 /\ stages[3].ok /\ status.status = "success")

\* pull succeeded, commit failed: no command of the push stage has run
C5_Witness ==
    /\ rpc = "done" /\ result = "failed"
    /\ stages = << [name |-> "pull", ok |-> TRUE], [name |-> "commit", ok |-> FALSE] >>
    /\ HasCalled("pull") /\ HasCalled("commit")
    /\ ~HasCalled("ahead") /\ ~HasCalled("push")
    /\ status.message = "Commit failed"

\* C8: when git pull was run and git_pull has returned False, git merge
\* --abort was run after the pull and no merge is in progress.
C8_PullFailureAborts ==
    \A k \in 1 .. Len(calls) :
        (calls[k] = "pull" /\ stages = << [name |-> "pull", ok |-> FALSE] >>) =>
            /\ \E j \in k + 1 .. Len(calls) : calls[j] = "abort"
            /\ ~merging

\* C9: no git command of the pipeline removes from the remote branch a
\* commit the local history lacks; a push made while the remote holds such
\* a commit leaves the remote as it is and is reported as "Push failed".
C9_NonDestructivePush ==
    [][calls' # calls =>
         /\ (remote \ local) \subseteq remote'
         /\ (rpc = "push" /\ ~(remote \subseteq local)) =>
              /\ remote' = remote
              /\ result' = "failed"
              /\ status'.message = "Push failed"]_vars

\* a commit arrived on the remote after the fetch; the push of the local
\* commit was refused and the remote still holds the newcomer
C9_Witness ==
    /\ rpc = "done" /\ result = "failed"
    /\ calls # <<>> /\ calls[Len(calls)] = "push"
    /\ AutoCommit \in local
    /\ (remote \ track) # {}
    /\ (remote \ local) # {}

\* The step-by-step pipeline returns what sync_repo, taken as one step in
\* Spec, returns for some answers of the file system and the stages.
SyncRepoAgrees ==
    rpc = "done" =>
        \E pathExists, isGit, pullOk, commitOk, pushOk \in BOOLEAN :
            LET r == sync_repo(args.dry, pathExists, isGit, pullOk, commitOk, pushOk)
            IN /\ r.ok = (result = "ok")
               /\ status = (IF r.message = "" THEN NoStatus
                            ELSE save_status(1, r.status, r.message))

\* C13: in a dry run sync_repo runs no git command and no stage: its only
\* step is the validation, after which it has returned; it returned True
\* when the validation passed, and main's counter goes up by one for that
\* return value; no step of the run changes the working copy, the index,
\* the local branch or the tracking ref, and the step of sync_repo leaves
\* the remote as it is.
C13_DryRunNoCalls ==
    /\ [](args.dry =>
            /\ calls = <<>> /\ stages = <<>>
            /\ rpc \in {"validate", "done"}
            /\ (rpc = "done" /\ valid = "yes") =>
                  /\ result = "ok"
                  /\ \A n \in 0 .. MaxRepos :
                        CountSuccess(n, result = "ok") = n + 1)
    /\ [][args.dry =>
            /\ UNCHANGED <<track, local, work, staged, merging>>
            /\ rpc' # rpc => UNCHANGED remote]_vars

\* a dry run returned True on a repository with changes to commit, a commit
\* to push and commits to pull
C13_Witness ==
    /\ args.dry /\ rpc = "done" /\ valid = "yes" /\ result = "ok"
    /\ work = {"file", "logs"}
    /\ EarlierCommit \in local
    /\ (remote \ local) # {}
    /\ calls = <<>>

\* C14: every git command sync_repo runs is run with a timeout, and
\* sync_repo is never left waiting for ever on a git subprocess that does
\* not return.
C14_BoundedCalls ==
    /\ \A k \in 1 .. Len(calls) : CallTimeout(calls[k]) # NoTimeout
    /\ rpc # "hung"

\* C15: when the fetch succeeded and the local branch lacks no commit of
\* the tracking ref, the behind count that returns ends the pull stage with
\* success, the local branch and the working copy as they were; a pull
\* stage that succeeded without git pull ran git fetch and the count and
\* nothing else, git merge --abort neither; sync_repo then goes on to the
\* first command of the commit stage.
C15_UpToDatePull ==
    /\ [][(rpc = "behind" /\ rpc' \notin {"behind", "hung"}
             /\ RevListCount(local, track) = 0) =>
            /\ rpc' = "sleep1"
            /\ stages' = << [name |-> "pull", ok |-> TRUE] >>
            /\ calls' = <<"fetch", "behind">>
            /\ result' = "none"
            /\ UNCHANGED <<local, work, staged, merging>>]_vars
    /\ [][(rpc = "sleep1" /\ rpc' # rpc) => rpc' = "status"]_vars
    /\ []((stages # <<>> /\ stages[1].ok /\ ~HasCalled("pull")) =>
            /\ ~HasCalled("abort")
            /\ \A k \in 1 .. Len(calls) :
                  StageOf(calls[k]) = 1 => calls[k] \in {"fetch", "behind"})

\* the local branch was up to date, no pull was run and the commit stage
\* has started
C15_Witness ==
    /\ calls = <<"fetch", "behind", "status">>
    /\ stages # <<>> /\ stages[1] = [name |-> "pull", ok |-> TRUE]
    /\ RevListCount(local, track) = 0
    /\ EarlierCommit \in local

\* C16: when the local branch has no commit the tracking ref lacks, the
\* ahead count that returns ends the push stage with success and sync_repo
\* with True and the status "success" saved; that step changes neither the
\* remote nor the tracking ref nor the local branch, and git push has not
\* been run: the count is the last git command of the run.
C16_NothingToPush ==
    /\ [][(rpc = "ahead" /\ rpc' \notin {"ahead", "hung"}
             /\ RevListCount(track, local) = 0) =>
            /\ rpc' = "done"
            /\ calls' = Append(calls, "ahead")
            /\ stages' = Append(stages, [name |-> "push", ok |-> TRUE])
            /\ result' = "ok"
            /\ status' = save_status(1, "success", "Sync completed")
            /\ UNCHANGED <<remote, track, local>>]_vars
    /\ []((rpc = "done" /\ calls # <<>> /\ calls[Len(calls)] = "ahead") =>
            /\ ~HasCalled("push")
            /\ result = "ok"
            /\ status = save_status(1, "success", "Sync completed"))

\* nothing to commit and nothing to push: the run succeeded without git
\* push and the remote is as the fetch found it
C16_Witness ==
    /\ rpc = "done" /\ result = "ok"
    /\ calls = <<"fetch", "behind", "status", "ahead">>
    /\ RevListCount(track, local) = 0
    /\ remote = track
    /\ status.status = "success"

\* C20: when a run that is not a dry run has returned True with the status
\* "success" saved, the working copy holds no change outside logs/, nothing
\* is left staged, and the local branch has no commit the remote lacks.
C20_SuccessMeansSynced ==
    (rpc = "done" /\ ~args.dry /\ result = "ok" /\ status.status = "success") =>
        /\ "file" \notin work
        /\ ~staged
        /\ local \subseteq remote

(***************************************************************************)
(* Properties of the gate (SpecGate)                                       *)
(***************************************************************************)
QuietStart == ConfigGet(gate.start, DefaultStart)
QuietEnd == ConfigGet(gate.end, DefaultEnd)

\* C10: should_skip_sync returns true exactly when the hour is >= start or
\* < end or in skipHours; with start 22, end 9 (given or by default) and no
\* skip hours, exactly the hours 22, 23 and 0..8 are skipped.
C10_QuietHoursGate ==
    gateResult # "none" =>
        /\ (gateResult = "skip") <=>
              (gate.hour >= QuietStart \/ gate.hour < QuietEnd
                 \/ gate.hour \in gate.skip)
        /\ (QuietStart = 22 /\ QuietEnd = 9 /\ gate.skip = {}) =>
              ((gateResult = "skip") <=> gate.hour \in {22, 23} \cup (0 .. 8))

\* noon is outside the default quiet hours and skipped as a skip hour
C10_Witness ==
    /\ gateResult = "skip"
    /\ gate = [hour |-> 12, start |-> Absent, end |-> Absent, skip |-> {12}]

(***************************************************************************)
(* Properties of main (Spec)                                               *)
(***************************************************************************)
\* C11: should_skip_sync is called only on a headless run without --force;
\* a run with --force or in head mode goes from the gate to the batch loop
\* without reading the clock and never leaves by the skip; a run the gate
\* told to skip has synced nothing, left the status record as it was and
\* ends with status 0.
C11_GateBypass ==
    /\ [](/\ gate # NoGate => GateConsulted(args)
          /\ (args.force \/ args.mode = "head") =>
                (gate = NoGate /\ exitPath # "skipped")
          /\ exitPath = "skipped" =>
                /\ should_skip_sync(gate.hour, gate.start, gate.end, gate.skip)
                /\ attempts = <<>> /\ status = NoStatus
                /\ summary = NoSummary
                /\ exitCode[Engine] = 0)
    /\ [][(pc[Engine] = "gate" /\ pc'[Engine] # "gate"
             /\ (args.force \/ args.mode = "head")) =>
            (pc'[Engine] = "loop" /\ idx' = 1 /\ gate' = NoGate)]_vars

\* a forced headless run has synced its repository
C11_Witness ==
    /\ args.force /\ args.mode = "headless"
    /\ gate = NoGate
    /\ attempts # <<>> /\ attempts[1].ok
    /\ summary # NoSummary
\* --repo names a path that no repository of the configuration has
RequestedMissing ==
    /\ args.repo # 0
    /\ \A k \in 1 .. Len(cfgRepos) : cfgRepos[k].path # args.repo

\* C12: an engine that did not acquire the lock ends with a non-zero status;
\* so does one whose --repo path is not in the configuration, whatever the
\* configuration holds, an empty repository list included; an engine that
\* finished the batch or was skipped by the gate ends with status 0.
C12_ExitStatus ==
    pc[Engine] = "exited" =>
        /\ ~acquired[Engine] => exitCode[Engine] # 0
        /\ (acquired[Engine] /\ RequestedMissing) => exitCode[Engine] # 0
        /\ exitPath \in {"completed", "skipped"} => exitCode[Engine] = 0
\* C17: a write of the status file replaces the whole record by the outcome
\* of the repository being synced, and when the summary is logged after a
\* batch that synced at least one repository, the record names the last
\* enabled repository of the list with the outcome its sync_repo call
\* returned.
C17_LastOutcomeSurvives ==
    /\ [][status' # status =>
            \E st \in {"success", "failed"},
               msg \in {"Sync completed", "Pull failed", "Commit failed",
                         "Push failed"} :
                status' = save_status(repos[idx].path, st, msg)]_vars
    /\ []((summary # NoSummary /\ EnabledRepos # <<>>) =>
            /\ status.repo = EnabledRepos[Len(EnabledRepos)].path
            /\ status.status =
                  (IF attempts[Len(attempts)].ok THEN "success" ELSE "failed"))
\* the repository of the configuration with the given path is enabled
EnabledPath(path) ==
    \E k \in 1 .. Len(cfgRepos) :
        cfgRepos[k].path = path /\ cfgRepos[k].enabled

\* C18: every sync_repo call and every status record is for a repository
\* the configuration enables, in every mode and with --repo too; the loop
\* passes over a disabled repository without a call, a status write or a
\* count; in the summary N is at most the number of enabled repositories
\* of the list and M is the length of the list, disabled ones included.
C18_DisabledNeverSynced ==
    /\ [](/\ \A k \in 1 .. Len(attempts) : EnabledPath(attempts[k].path)
          /\ status # NoStatus => EnabledPath(status.repo)
          /\ summary # NoSummary =>
                /\ summary.n <= Len(EnabledRepos)
                /\ summary.m = Len(repos))
    /\ [][(pc[Engine] = "loop" /\ idx <= Len(repos) /\ ~repos[idx].enabled
             /\ idx' # idx) =>
            /\ idx' = idx + 1
            /\ UNCHANGED <<attempts, status, successCount>>]_vars

\* a head-mode run with --repo naming a disabled repository: nothing was
\* synced or recorded and the summary is 0/1
C18_Witness ==
    /\ args.mode = "head" /\ args.repo = 1
    /\ cfgRepos # <<>> /\ ~cfgRepos[1].enabled
    /\ summary = [n |-> 0, m |-> 1]
    /\ attempts = <<>> /\ status = NoStatus
    /\ pc[Engine] = "exited" /\ exitCode[Engine] = 0
\* C19: with quiet hours start <= end, both in 0..23 and start = end
\* included, the test "hour >= start or hour < end" is true of the hour the
\* gate was called at, whichever it is, and should_skip_sync returned True.
C19_NonWrappingSkipsAll ==
    (gateResult # "none" /\ gate.start \in Hours /\ gate.end \in Hours
       /\ gate.start <= gate.end) =>
        /\ gate.hour >= gate.start \/ gate.hour < gate.end
        /\ gateResult = "skip"

\* quiet hours 9 to 17 and no skip hours: the gate says skip at 20 o'clock
C19_Witness ==
    /\ gateResult = "skip"
    /\ gate = [hour |-> 20, start |-> 9, end |-> 17, skip |-> {}]

\* In Spec, a run whose gate read quiet hours with start <= end has left by
\* the skip and synced no repository.
NonWrappingNeverSyncs ==
    (gate # NoGate /\ gate.start <= gate.end) =>
        /\ exitPath = "skipped"
        /\ attempts = <<>> /\ status = NoStatus /\ summary = NoSummary

=============================================================================
